---- MODULE Spec2Model ----
(***************************************************************************)
(* Portfolio site script (src/SCRIPT/script.js): single-page navigation,   *)
(* mobile menu, history/fragment handling, skill-bar animation timers and  *)
(* the contact form's validate / submit / auto-reset lifecycle.            *)
(*                                                                         *)
(* The DOM is the state store: CSS classes on elements, the address        *)
(* fragment, the session history, field values and pending timers.         *)
(***************************************************************************)
EXTENDS Integers, Sequences, FiniteSets, TLC

VARIABLES
    present,        \* anchor elements that exist in the document (fixed)
    loaded,         \* DOMContentLoaded has been dispatched
    active,         \* ids of the elements carrying class "active"
    linkActive,     \* data-page values of the NavLinks carrying class "active"
    fragment,       \* window.location.hash.slice(1)
    historyLen,     \* window.history.length
    historyPos,     \* index of the current session-history entry
    popPending,     \* a traversal happened, its popstate event is not yet handled
    scrollY,        \* window.pageYOffset
    animateTimers,  \* pending setTimeout(animateSkills, ...) timers
    barWidth,       \* style.width of each skill bar
    barTimers,      \* pending 100ms width timers of each skill bar
    value,          \* raw text of each form field
    errorFlag,      \* fields whose form group carries class "error"
    errorText,      \* textContent of each field's error element
    formDisplay,    \* contactForm.style.display
    successHidden,  \* formSuccess carries class "hidden"
    resetTimers,    \* pending 3000ms form-reset timers
    focus,          \* the form field holding input focus, or "none"
    checked,        \* verdict of the last validateField run on each field
    scrolled,       \* the header carries class "scrolled"
    lastScroll,     \* the script's variable lastScroll
    innerWidth,     \* window.innerWidth
    scrollDebounce, \* closure state of debounce(handleScroll, 10)
    resizeDebounce, \* closure state of handleResize = debounce(..., 250)
    debounced,      \* closure state of a wrapper debounce(func, wait)
    burst,          \* arguments of the calls of the wrapper since func last ran
    bursts,         \* number of bursts of calls begun
    ran,            \* arguments of each run of func, in order
    threw,          \* the last handler ended with an uncaught error
    last            \* the last event handled: [op, arg]

navVars == <<loaded, active, linkActive, fragment, historyLen, historyPos,
             popPending, scrollY, animateTimers, barWidth, barTimers>>
formVars == <<value, errorFlag, errorText, formDisplay, successHidden,
              resetTimers, focus, checked>>
uiVars == <<scrolled, lastScroll, innerWidth, scrollDebounce, resizeDebounce>>
debVars == <<debounced, burst, bursts, ran>>
vars == <<present, navVars, formVars, uiVars, debVars, threw, last>>

----------------------------------------------------------------------------
(* Bounds of the model *)
MaxHistory == 3
MaxAnimateTimers == 2
MaxBarTimers == 2
MaxResetTimers == 2
MaxTimerIds == 2
MaxBursts == 3
MaxBurstLen == 3

\* {10,500} of the message pattern, line 157
MinMessage == 10
MaxMessage == 500

----------------------------------------------------------------------------
(* The document *)

Pages == {"home", "about", "projects", "contact"}

pageMap == <<"home", "about", "projects", "contact">>

Anchors == {"mobileToggle", "navMenu", "header", "contactForm", "formSuccess"}

\* The documents considered: every anchor present, or exactly one absent.
Documents == {Anchors} \cup {Anchors \ {a} : a \in Anchors}

\* The documents that differ for navigation: the header is an element whose
\* id a fragment can name, the toggle and the menu carry the menu state.
NavDocuments == {Anchors, Anchors \ {"header"}, Anchors \ {"mobileToggle"}}

SkillBars == {"bar"}

\* data-progress of a skill bar
dataProgress(bar) == "80"

\* Ids passed to navigateToPage: the four pages, the id of a non-page
\* element, an id of no element, an id that carries a double quote and an
\* id that carries a space.
NavIds == Pages \cup {"header", "nonexistent", "a\"b", "my page"}

\* Fragments the user can bring into the address bar (already URL-encoded).
UserFragments == Pages \cup {"", "header", "nonexistent"}

Keys == {"Escape", "1", "2", "3", "4", "5"}

\* Fragments typed into the address bar when the menu is studied: a page and
\* the id of the menu element.
MenuFragments == {"", "about", "navMenu"}

\* window.pageYOffset on either side of the threshold of line 98.
ScrollPositions == {0, 100}

\* window.innerWidth on either side of the threshold of line 595.
Widths == {600, 1024}

\* The argument lists a debounced wrapper is called with.
DebounceArgs == {"a", "b"}

\* The form fields, in document order.
FieldOrder == <<"name", "email", "message">>

Fields == {"name", "email", "message"}

\* Texts the user can put into each field.
FieldValues(f) ==
    IF f = "name" THEN {"", " Al ", "A1"}
    ELSE IF f = "email" THEN {"", "a@b.c", "a@b"}
    ELSE {"", "Hello there", "Hi"}

RECURSIVE Repeat(_, _)
\* The string s written n times.
Repeat(s, n) ==
    IF n = 0 THEN ""
    ELSE LET half == Repeat(s, n \div 2)
         IN IF n % 2 = 0 THEN half \o half ELSE half \o half \o s

\* Texts a field can hold when validateField runs on it: empty and
\* whitespace-only texts, texts around the length limits of the message rule
\* (9, 10, 500 and 501 characters), and a message of two lines.
ValidatedValues(f) ==
    IF f = "name" THEN {"", "  ", "\t", " Al ", "A1"}
    ELSE IF f = "email" THEN {"", " ", "a@b.c", "a@b"}
    ELSE {"", " \n ", "Hi", "123456789", "1234567890", "  1234567890 ",
          "Hello there", "Hello\nthere", Repeat("x", MaxMessage),
          Repeat("x", MaxMessage + 1)}

\* The documents that differ for the form.
FormDocuments == {Anchors, Anchors \ {"formSuccess"}, Anchors \ {"contactForm"}}

----------------------------------------------------------------------------
(* Strings *)

HasChar(s, c) == \E i \in 1..Len(s) : SubSeq(s, i, i) = c

\* The URL parser drops tabs and newlines and percent-encodes the code points of
\* the fragment percent-encode set; it keeps the other ASCII characters.
EncodeChar(c) ==
    IF c \in {"\t", "\n", "\r"} THEN ""
    ELSE IF c = " " THEN "%20"
    ELSE IF c = "\"" THEN "%22"
    ELSE IF c = "<" THEN "%3C"
    ELSE IF c = ">" THEN "%3E"
    ELSE c

RECURSIVE EncodeFragment(_)
\* location.hash.slice(1) after pushState(null, null, "#" + s), lines 58-59.
EncodeFragment(s) ==
    IF Len(s) = 0 THEN ""
    ELSE EncodeChar(SubSeq(s, 1, 1)) \o EncodeFragment(SubSeq(s, 2, Len(s)))

\* document.getElementById(id): the set holding the element, or the empty set.
getElementById(doc, id) == {id} \cap (Pages \cup doc)

\* The attribute selector built from pageId (line 43) parses only when the
\* interpolated id does not end the quoted string early; otherwise
\* querySelector throws SyntaxError.
SelectorParses(pageId) == ~HasChar(pageId, "\"") /\ ~HasChar(pageId, "\n")

\* document.querySelector on the data-page selector: the NavLink bound to the
\* page, or the empty set.
queryDataPage(pageId) == {pageId} \cap Pages

----------------------------------------------------------------------------
(* Form validation *)

Letters ==
    {"a", "b", "c", "d", "e", "f", "g", "h", "i", "j", "k", "l", "m",
     "n", "o", "p", "q", "r", "s", "t", "u", "v", "w", "x", "y", "z",
     "A", "B", "C", "D", "E", "F", "G", "H", "I", "J", "K", "L", "M",
     "N", "O", "P", "Q", "R", "S", "T", "U", "V", "W", "X", "Y", "Z"}

\* The class \s of the patterns, and the characters String.trim strips.
WhiteSpace == {" ", "\t", "\n", "\r", "\f"}

\* The characters "." of a pattern does not match.
LineTerminators == {"\n", "\r"}

CharAt(s, i) == SubSeq(s, i, i)

RECURSIVE trimStart(_)
trimStart(s) ==
    IF Len(s) > 0 /\ CharAt(s, 1) \in WhiteSpace
    THEN trimStart(SubSeq(s, 2, Len(s))) ELSE s

RECURSIVE trimEnd(_)
trimEnd(s) ==
    IF Len(s) > 0 /\ CharAt(s, Len(s)) \in WhiteSpace
    THEN trimEnd(SubSeq(s, 1, Len(s) - 1)) ELSE s

trim(s) == trimEnd(trimStart(s))

\* /^[a-zA-Z\s]{2,50}$/
NamePattern(s) ==
    /\ Len(s) >= 2 /\ Len(s) <= 50
    /\ \A i \in 1..Len(s) : CharAt(s, i) \in Letters \cup WhiteSpace

\* /^[^\s@]+@[^\s@]+\.[^\s@]+$/
EmailPattern(s) ==
    \E i, j \in 1..Len(s) :
        /\ 1 < i /\ i + 1 < j /\ j < Len(s)
        /\ CharAt(s, i) = "@"
        /\ CharAt(s, j) = "."
        /\ \A k \in 1..Len(s) :
              k # i => CharAt(s, k) \notin WhiteSpace \cup {"@"}

\* /^.{10,500}$/
MessagePattern(s) ==
    /\ Len(s) >= MinMessage /\ Len(s) <= MaxMessage
    /\ \A i \in 1..Len(s) : CharAt(s, i) \notin LineTerminators

\* validationRules, lines 147-160
RulePattern(f, s) ==
    IF f = "name" THEN NamePattern(s)
    ELSE IF f = "email" THEN EmailPattern(s)
    ELSE MessagePattern(s)

RuleMessage(f) ==
    IF f = "name" THEN "Name must be 2-50 characters and contain only letters"
    ELSE IF f = "email" THEN "Please enter a valid email address"
    ELSE "Message must be between 10 and 500 characters"

RequiredMessage == "This field is required"

\* Faulty variant: the empty value is left to the pattern of the field's rule.
validateFieldRuleOnly(f, raw) ==
    LET fieldValue == trim(raw)
    IN IF ~RulePattern(f, fieldValue)
       THEN [ok |-> FALSE, text |-> RuleMessage(f)]
       ELSE [ok |-> TRUE, text |-> ""]

\* validateField, lines 167-194: the verdict and the error text it leaves.
validateField(f, raw) ==
    LET fieldValue == trim(raw)
    IN IF fieldValue = "" THEN [ok |-> FALSE, text |-> RequiredMessage]
       ELSE IF ~RulePattern(f, fieldValue)
            THEN [ok |-> FALSE, text |-> RuleMessage(f)]
            ELSE [ok |-> TRUE, text |-> ""]

\* The error flags after validateField ran on field f.
FlagsAfter(flags, f, raw) ==
    IF validateField(f, raw).ok THEN flags \ {f} ELSE flags \cup {f}

TextsAfter(texts, f, raw) == [texts EXCEPT ![f] = validateField(f, raw).text]

\* The verdict validateField returned, as recorded for the field.
Verdict(f, raw) == IF validateField(f, raw).ok THEN "passed" ELSE "failed"

ChecksAfter(chk, f, raw) == [chk EXCEPT ![f] = Verdict(f, raw)]

\* Faulty variant: the fields after the first invalid one are not validated.
validateEachShortCircuit(acc, f, vals) ==
    IF acc.isValid
    THEN [isValid |-> validateField(f, vals[f]).ok,
          flags |-> FlagsAfter(acc.flags, f, vals[f]),
          texts |-> TextsAfter(acc.texts, f, vals[f]),
          checks |-> ChecksAfter(acc.checks, f, vals[f])]
    ELSE acc

\* The forEach callback of validateForm (lines 204-208) run on field f: acc
\* holds isValid and the flags, texts and verdicts left so far.
validateEach(acc, f, vals) ==
    [isValid |-> acc.isValid /\ validateField(f, vals[f]).ok,
     flags |-> FlagsAfter(acc.flags, f, vals[f]),
     texts |-> TextsAfter(acc.texts, f, vals[f]),
     checks |-> ChecksAfter(acc.checks, f, vals[f])]

RECURSIVE validateFields(_, _, _)
\* formFields.forEach from the i-th field on, in document order (line 204).
validateFields(acc, i, vals) ==
    IF i > Len(FieldOrder) THEN acc
    ELSE validateFields(validateEach(acc, FieldOrder[i], vals), i + 1, vals)

\* validateForm, lines 200-211: every field is validated; the value returned.
validateForm(vals) ==
    validateFields([isValid |-> TRUE, flags |-> {},
                    texts |-> [f \in Fields |-> ""],
                    checks |-> [f \in Fields |-> "none"]], 1, vals).isValid

\* Faulty variant: the last form group carrying class "error" is taken.
lastError(flags) ==
    IF flags = {} THEN "none"
    ELSE FieldOrder[CHOOSE i \in 1..Len(FieldOrder) :
                       /\ FieldOrder[i] \in flags
                       /\ \A j \in (i + 1)..Len(FieldOrder) :
                             FieldOrder[j] \notin flags]

\* The first form group carrying class "error", in document order (line 275).
firstError(flags) ==
    IF flags = {} THEN "none"
    ELSE FieldOrder[CHOOSE i \in 1..Len(FieldOrder) :
                       /\ FieldOrder[i] \in flags
                       /\ \A j \in 1..(i - 1) : FieldOrder[j] \notin flags]

----------------------------------------------------------------------------
(* navigateToPage as a function of the navigation state *)

NavState ==
    [active |-> active, linkActive |-> linkActive, fragment |-> fragment,
     historyLen |-> historyLen, historyPos |-> historyPos, scrollY |-> scrollY,
     animateTimers |-> animateTimers, threw |-> FALSE]

\* Faulty variant: the pages are not cleared before the target is marked.
ActivateTargetNoClear(act, doc, pageId) == act \cup getElementById(doc, pageId)

\* Lines 31-39: clear every page, mark the element with the id.
ActivateTarget(act, doc, pageId) == (act \ Pages) \cup getElementById(doc, pageId)

\* Lines 49-52: close the mobile menu when both elements exist.
CloseMenu(act, doc) ==
    IF "mobileToggle" \in doc /\ "navMenu" \in doc
    THEN act \ {"mobileToggle", "navMenu"}
    ELSE act

\* Faulty variant: the fragment is not compared, every call pushes.
PushesStateAlways(s, pageId) == TRUE

\* Lines 58-60: push the fragment pageId unless the fragment already reads pageId.
PushesState(s, pageId) == s.fragment # pageId

navigateToPage(s, doc, pageId) ==
    IF ~SelectorParses(pageId)
    THEN [s EXCEPT !.active = ActivateTarget(s.active, doc, pageId),
                   !.linkActive = {},
                   !.threw = TRUE]
    ELSE [s EXCEPT
            !.active = CloseMenu(ActivateTarget(s.active, doc, pageId), doc),
            !.linkActive = queryDataPage(pageId),
            !.scrollY = 0,
            !.fragment = IF PushesState(s, pageId)
                         THEN EncodeFragment(pageId) ELSE s.fragment,
            !.historyPos = IF PushesState(s, pageId)
                           THEN s.historyPos + 1 ELSE s.historyPos,
            !.historyLen = IF PushesState(s, pageId)
                           THEN s.historyPos + 1 ELSE s.historyLen,
            !.animateTimers = IF pageId = "about"
                              THEN s.animateTimers + 1 ELSE s.animateTimers]

\* The counters stay within the bounds of the model.
WithinBounds(s) ==
    /\ s.historyLen <= MaxHistory
    /\ s.animateTimers <= MaxAnimateTimers

Apply(s) ==
    /\ WithinBounds(s)
    /\ active' = s.active
    /\ linkActive' = s.linkActive
    /\ fragment' = s.fragment
    /\ historyLen' = s.historyLen
    /\ historyPos' = s.historyPos
    /\ scrollY' = s.scrollY
    /\ animateTimers' = s.animateTimers
    /\ threw' = s.threw

----------------------------------------------------------------------------
(* Initial state: the script has run, no event has been dispatched yet *)

InitNavState ==
    /\ loaded = FALSE
    /\ active = {}
    /\ linkActive = {}
    /\ fragment \in UserFragments
    /\ historyLen = 1
    /\ historyPos = 1
    /\ popPending = FALSE
    /\ scrollY = 0
    /\ animateTimers = 0
    /\ barWidth = [b \in SkillBars |-> ""]
    /\ barTimers = [b \in SkillBars |-> 0]
    /\ threw = FALSE
    /\ last = [op |-> "init", arg |-> ""]

InitFormState ==
    /\ value = [f \in Fields |-> ""]
    /\ errorFlag = {}
    /\ errorText = [f \in Fields |-> ""]
    /\ formDisplay = ""
    /\ successHidden = TRUE
    /\ resetTimers = 0
    /\ focus = "none"
    /\ checked = [f \in Fields |-> "none"]

\* No call of a debounced wrapper yet: timeout is undefined (0), no timer.
InitDebounce == [timeout |-> 0, timers |-> {}]

InitUiState ==
    /\ scrolled = FALSE
    /\ lastScroll = 0
    /\ innerWidth = 600
    /\ scrollDebounce = InitDebounce
    /\ resizeDebounce = InitDebounce

InitDebState ==
    /\ debounced = InitDebounce
    /\ burst = <<>>
    /\ bursts = 0
    /\ ran = <<>>

InitRest == InitFormState /\ InitUiState /\ InitDebState

Init == present \in Documents /\ InitNavState /\ InitRest

InitNav == present \in NavDocuments /\ InitNavState /\ InitRest

InitForm ==
    /\ present \in FormDocuments
    /\ InitNavState /\ fragment = ""
    /\ InitRest

----------------------------------------------------------------------------
(* Event handlers *)

\* The event loop: DOMContentLoaded is dispatched before any user event, and a
\* history traversal and its popstate event belong to one task, so no other
\* event is handled between them.
Idle == loaded /\ ~popPending

\* DOMContentLoaded handler, lines 433-473.  The fade-in of the body and the
\* intersection observers it starts touch presentation state only, which no
\* other handler reads; they are not part of the state.
Load ==
    /\ ~loaded
    /\ loaded' = TRUE
    /\ LET hash == IF fragment = "" THEN "home" ELSE fragment
           initialPage == getElementById(present, hash)
           initialLink == queryDataPage(hash)
       IN /\ active' = (active \ Pages) \cup
                       (IF initialPage # {} THEN initialPage ELSE {"home"})
          /\ linkActive' = IF initialLink # {} THEN initialLink ELSE {"home"}
          /\ animateTimers' = IF hash = "about"
                              THEN animateTimers + 1 ELSE animateTimers
          /\ animateTimers' <= MaxAnimateTimers
    /\ threw' = FALSE
    /\ last' = [op |-> "load", arg |-> fragment]
    /\ UNCHANGED <<present, uiVars, debVars, fragment, historyLen, historyPos, popPending,
                   scrollY, barWidth, barTimers, formVars>>

\* A call navigateToPage(pageId): the document-level click handler on an
\* element carrying data-page and href (lines 80-87), or a direct call.
Navigate(pageId) ==
    /\ Idle
    /\ Apply(navigateToPage(NavState, present, pageId))
    /\ last' = [op |-> "navigateToPage", arg |-> pageId]
    /\ UNCHANGED <<present, uiVars, debVars, loaded, popPending, barWidth, barTimers, formVars>>

\* Faulty variant: the document-level handler sees the fragment as it was
\* before the click, as if pushState had not yet changed location.hash.
ClickNavLinkStaleFragment(pageId) ==
    /\ Idle
    /\ LET s1 == navigateToPage(NavState, present, pageId)
           s2 == navigateToPage([s1 EXCEPT !.threw = FALSE,
                                           !.fragment = fragment],
                                present, pageId)
       IN Apply([s2 EXCEPT !.threw = s1.threw \/ s2.threw])
    /\ last' = [op |-> "navigateToPage", arg |-> pageId]
    /\ UNCHANGED <<present, uiVars, debVars, loaded, popPending, barWidth, barTimers, formVars>>

\* A click on a NavLink: the per-link handler (lines 69-77) and then the
\* document-level handler (lines 80-87) both call navigateToPage.
ClickNavLink(pageId) ==
    /\ Idle
    /\ LET s1 == navigateToPage(NavState, present, pageId)
           s2 == navigateToPage([s1 EXCEPT !.threw = FALSE], present, pageId)
       IN Apply([s2 EXCEPT !.threw = s1.threw \/ s2.threw])
    /\ last' = [op |-> "navigateToPage", arg |-> pageId]
    /\ UNCHANGED <<present, uiVars, debVars, loaded, popPending, barWidth, barTimers, formVars>>

\* Click on the mobile toggle, lines 17-22.
ToggleClick ==
    /\ Idle
    /\ "mobileToggle" \in present /\ "navMenu" \in present
    /\ active' = (active \ {"mobileToggle", "navMenu"}) \cup
                 ({"mobileToggle", "navMenu"} \ active)
    /\ threw' = FALSE
    /\ last' = [op |-> "toggle", arg |-> ""]
    /\ UNCHANGED <<present, uiVars, debVars, loaded, linkActive, fragment, historyLen, historyPos,
                   popPending, scrollY, animateTimers, barWidth, barTimers, formVars>>

IsDigitKey(key) == key \in {"1", "2", "3", "4"}

\* Faulty variant: the index is not lowered by one, the page after is taken.
parseIntNextPage(key) == CHOOSE n \in 1..4 : key = <<"4", "1", "2", "3">>[n]

parseInt(key) == CHOOSE n \in 1..4 : key = <<"1", "2", "3", "4">>[n]

\* keydown handler, lines 358-376.
Keydown(key) ==
    /\ Idle
    /\ LET escThrows == key = "Escape" /\ "navMenu" \in present
                        /\ "navMenu" \in active /\ "mobileToggle" \notin present
           s0 == IF key = "Escape" /\ "navMenu" \in present
                    /\ "navMenu" \in active /\ "mobileToggle" \in present
                 THEN [NavState EXCEPT !.active = @ \ {"mobileToggle", "navMenu"}]
                 ELSE NavState
           s1 == IF IsDigitKey(key)
                 THEN navigateToPage(s0, present, pageMap[parseInt(key)])
                 ELSE s0
       IN Apply([s1 EXCEPT !.threw = escThrows \/ s1.threw])
    /\ last' = IF IsDigitKey(key)
               THEN [op |-> "navigateToPage", arg |-> pageMap[parseInt(key)]]
               ELSE [op |-> "keydown", arg |-> key]
    /\ UNCHANGED <<present, uiVars, debVars, loaded, popPending, barWidth, barTimers, formVars>>

\* The user goes back or forward to another session-history entry; the
\* browser sets the fragment of that entry and queues popstate.  The entries
\* themselves are not kept: the entry reached may carry any fragment.
HistoryTraverse(pos, frag) ==
    /\ Idle
    /\ pos \in 1..historyLen /\ pos # historyPos
    /\ historyPos' = pos
    /\ fragment' = frag
    /\ popPending' = TRUE
    /\ UNCHANGED <<present, uiVars, debVars, loaded, active, linkActive, historyLen, scrollY,
                   animateTimers, barWidth, barTimers, formVars, threw, last>>

\* The user edits the fragment in the address bar: a new entry, and popstate.
FragmentEdit(frag) ==
    /\ Idle
    /\ frag # fragment
    /\ historyPos < MaxHistory
    /\ historyPos' = historyPos + 1
    /\ historyLen' = historyPos + 1
    /\ fragment' = frag
    /\ popPending' = TRUE
    /\ UNCHANGED <<present, uiVars, debVars, loaded, active, linkActive, scrollY,
                   animateTimers, barWidth, barTimers, formVars, threw, last>>

\* Faulty variant: the popstate handler re-uses navigateToPage, which pushes.
PopstateHandlerNavigates ==
    /\ popPending
    /\ popPending' = FALSE
    /\ LET hash == IF fragment = "" THEN "home" ELSE fragment
       IN /\ Apply(navigateToPage(NavState, present, hash))
          /\ last' = [op |-> "popstate", arg |-> fragment]
    /\ UNCHANGED <<present, uiVars, debVars, loaded, barWidth, barTimers, formVars>>

\* popstate handler, lines 382-406.
PopstateHandler ==
    /\ popPending
    /\ popPending' = FALSE
    /\ LET hash == IF fragment = "" THEN "home" ELSE fragment
       IN /\ active' = ActivateTarget(active, present, hash)
          /\ linkActive' = queryDataPage(hash)
          /\ animateTimers' = IF hash = "about"
                              THEN animateTimers + 1 ELSE animateTimers
          /\ animateTimers' <= MaxAnimateTimers
    /\ scrollY' = 0
    /\ threw' = FALSE
    /\ last' = [op |-> "popstate", arg |-> fragment]
    /\ UNCHANGED <<present, uiVars, debVars, loaded, fragment, historyLen, historyPos,
                   barWidth, barTimers, formVars>>

\* A pending animateSkills timer fires: animateSkills, lines 127-141.
\* animateSkills without line 133: the bars keep their width until the
\* 100ms timers fire.
animateSkillsNoReset ==
    /\ animateTimers > 0
    /\ animateTimers' = animateTimers - 1
    /\ barTimers' = [b \in SkillBars |-> barTimers[b] + 1]
    /\ \A b \in SkillBars : barTimers'[b] <= MaxBarTimers
    /\ threw' = FALSE
    /\ last' = [op |-> "animateSkills", arg |-> ""]
    /\ UNCHANGED <<present, uiVars, debVars, loaded, active, linkActive, fragment, historyLen,
                   historyPos, popPending, scrollY, formVars, barWidth>>

animateSkills ==
    /\ animateTimers > 0
    /\ animateTimers' = animateTimers - 1
    /\ barWidth' = [b \in SkillBars |-> "0%"]
    /\ barTimers' = [b \in SkillBars |-> barTimers[b] + 1]
    /\ \A b \in SkillBars : barTimers'[b] <= MaxBarTimers
    /\ threw' = FALSE
    /\ last' = [op |-> "animateSkills", arg |-> ""]
    /\ UNCHANGED <<present, uiVars, debVars, loaded, active, linkActive, fragment, historyLen,
                   historyPos, popPending, scrollY, formVars>>

\* The 100ms timer of one bar fires, lines 137-139.
BarTimerFires(b) ==
    /\ barTimers[b] > 0
    /\ barTimers' = [barTimers EXCEPT ![b] = @ - 1]
    /\ barWidth' = [barWidth EXCEPT ![b] = dataProgress(b) \o "%"]
    /\ threw' = FALSE
    /\ last' = [op |-> "barTimer", arg |-> b]
    /\ UNCHANGED <<present, uiVars, debVars, loaded, active, linkActive, fragment, historyLen,
                   historyPos, popPending, scrollY, animateTimers, formVars>>

NextNav ==
    \/ Load
    \/ \E id \in NavIds : Navigate(id)
    \/ \E p \in Pages : ClickNavLink(p)
    \/ ToggleClick
    \/ \E k \in Keys : Keydown(k)
    \/ \E pos \in 1..MaxHistory, f \in UserFragments : HistoryTraverse(pos, f)
    \/ \E f \in UserFragments : FragmentEdit(f)
    \/ PopstateHandler
    \/ animateSkills
    \/ \E b \in SkillBars : BarTimerFires(b)

SpecNav == InitNav /\ [][NextNav]_vars

\* Navigation by the NavLinks alone: every call of navigateToPage comes from
\* a click on a link, which both click handlers receive.
InitClick == InitNav

NextClick ==
    \/ Load
    \/ \E p \in Pages : ClickNavLink(p)
    \/ ToggleClick
    \/ \E pos \in 1..MaxHistory, f \in UserFragments : HistoryTraverse(pos, f)
    \/ \E f \in UserFragments : FragmentEdit(f)
    \/ PopstateHandler
    \/ animateSkills
    \/ \E b \in SkillBars : BarTimerFires(b)

SpecClick == InitClick /\ [][NextClick]_vars

----------------------------------------------------------------------------
(* Contact form *)

FormVisible == formDisplay # "none"

\* The user puts the caret into a field of the displayed form.  A field that
\* held the focus loses it, and its blur handler (lines 219-221) runs.
FocusField(f) ==
    /\ Idle /\ "contactForm" \in present
    /\ FormVisible
    /\ focus # f
    /\ focus' = f
    /\ IF focus = "none"
       THEN UNCHANGED <<errorFlag, errorText, checked>>
       ELSE /\ errorFlag' = FlagsAfter(errorFlag, focus, value[focus])
            /\ errorText' = TextsAfter(errorText, focus, value[focus])
            /\ checked' = ChecksAfter(checked, focus, value[focus])
    /\ threw' = FALSE
    /\ last' = [op |-> "focus", arg |-> f]
    /\ UNCHANGED <<present, uiVars, debVars, navVars, value, formDisplay, successHidden,
                   resetTimers>>

\* The focused field loses the focus: blur handler, lines 219-221.
Blur(f) ==
    /\ Idle /\ "contactForm" \in present
    /\ focus = f
    /\ focus' = "none"
    /\ errorFlag' = FlagsAfter(errorFlag, f, value[f])
    /\ errorText' = TextsAfter(errorText, f, value[f])
    /\ checked' = ChecksAfter(checked, f, value[f])
    /\ threw' = FALSE
    /\ last' = [op |-> "blur", arg |-> f]
    /\ UNCHANGED <<present, uiVars, debVars, navVars, value, formDisplay, successHidden,
                   resetTimers>>

\* The user edits the focused field: input handler, lines 224-229.
Input(f, v) ==
    /\ Idle /\ "contactForm" \in present
    /\ focus = f
    /\ v # value[f]
    /\ value' = [value EXCEPT ![f] = v]
    /\ IF f \in errorFlag
       THEN /\ errorFlag' = FlagsAfter(errorFlag, f, v)
            /\ errorText' = TextsAfter(errorText, f, v)
            /\ checked' = ChecksAfter(checked, f, v)
       ELSE UNCHANGED <<errorFlag, errorText, checked>>
    /\ threw' = FALSE
    /\ last' = [op |-> "input", arg |-> f]
    /\ UNCHANGED <<present, uiVars, debVars, navVars, formDisplay, successHidden, resetTimers,
                   focus>>

\* Faulty variant: the valid branch schedules no reset.
scheduleResetDropped(pending) == pending

\* setTimeout(..., 3000), lines 256-272: one more reset timer is pending.
scheduleReset(pending) == pending + 1

\* submit handler, lines 233-289.
Submit ==
    /\ Idle /\ "contactForm" \in present
    /\ LET run == validateFields([isValid |-> TRUE, flags |-> errorFlag,
                                  texts |-> errorText, checks |-> checked],
                                 1, value)
       IN /\ errorFlag' = run.flags
          /\ errorText' = run.texts
          /\ checked' = run.checks
    /\ IF validateForm(value)
       THEN /\ formDisplay' = "none"
            /\ successHidden' = IF "formSuccess" \in present
                                THEN FALSE ELSE successHidden
            /\ resetTimers' = scheduleReset(resetTimers)
            /\ resetTimers' <= MaxResetTimers
            /\ focus' = "none"
            /\ last' = [op |-> "submit", arg |-> "valid"]
       ELSE /\ focus' = IF FormVisible THEN firstError(errorFlag') ELSE focus
            /\ last' = [op |-> "submit", arg |-> "invalid"]
            /\ UNCHANGED <<formDisplay, successHidden, resetTimers>>
    /\ threw' = FALSE
    /\ UNCHANGED <<present, uiVars, debVars, navVars, value>>

\* Faulty variant: the timer callback does not call contactForm.reset().
ResetTimerFiresKeepsValues ==
    /\ resetTimers > 0
    /\ resetTimers' = resetTimers - 1
    /\ formDisplay' = "flex"
    /\ successHidden' = IF "formSuccess" \in present THEN TRUE ELSE successHidden
    /\ errorFlag' = {}
    /\ errorText' = [f \in Fields |-> ""]
    /\ threw' = FALSE
    /\ last' = [op |-> "reset", arg |-> ""]
    /\ UNCHANGED <<present, uiVars, debVars, navVars, value, focus, checked>>

\* A form-reset timer fires: lines 256-272.
ResetTimerFires ==
    /\ resetTimers > 0
    /\ resetTimers' = resetTimers - 1
    /\ value' = [f \in Fields |-> ""]
    /\ formDisplay' = "flex"
    /\ successHidden' = IF "formSuccess" \in present THEN TRUE ELSE successHidden
    /\ errorFlag' = {}
    /\ errorText' = [f \in Fields |-> ""]
    /\ threw' = FALSE
    /\ last' = [op |-> "reset", arg |-> ""]
    /\ UNCHANGED <<present, uiVars, debVars, navVars, focus, checked>>

NextForm ==
    \/ Load
    \/ \E f \in Fields : FocusField(f)
    \/ \E f \in Fields : Blur(f)
    \/ \E f \in Fields : \E v \in FieldValues(f) : Input(f, v)
    \/ Submit
    \/ ResetTimerFires

SpecForm == InitForm /\ [][NextForm]_vars

\* The field values are those the document holds when the script starts (the
\* browser restores them on reload and fills them in from a saved profile).
InitValidate ==
    /\ present = Anchors
    /\ InitNavState /\ fragment = ""
    /\ InitUiState /\ InitDebState
    /\ value \in [Fields -> UNION {ValidatedValues(f) : f \in Fields}]
    /\ \A f \in Fields : value[f] \in ValidatedValues(f)
    /\ errorFlag = {}
    /\ errorText = [f \in Fields |-> ""]
    /\ formDisplay = ""
    /\ successHidden = TRUE
    /\ resetTimers = 0
    /\ focus = "none"
    /\ checked = [f \in Fields |-> "none"]

\* validateField is run by the blur handler and by the submit handler.
NextValidate ==
    \/ Load
    \/ \E f \in Fields : FocusField(f)
    \/ \E f \in Fields : Blur(f)
    \/ Submit
    \/ ResetTimerFires

SpecValidate == InitValidate /\ [][NextValidate]_vars

----------------------------------------------------------------------------
(* debounce, lines 108-118.  The closure state of one wrapper is a record:  *)
(* timeout, the id the variable holds (0 while undefined), and timers, the  *)
(* pending timers the wrapper created, each with the arguments of its call. *)

\* clearTimeout(id): the pending timer carrying the id is cancelled.
clearTimeout(timers, id) == {t \in timers : t.id # id}

\* The ids setTimeout can hand out: those no pending timer carries.
FreeIds(timers) == (1..MaxTimerIds) \ {t.id : t \in timers}

NewId(timers) == CHOOSE i \in FreeIds(timers) : \A j \in FreeIds(timers) : i <= j

\* Faulty variant: the pending timer is not cancelled before the new one.
executedFunctionNoClear(d, args) ==
    LET id == NewId(d.timers)
    IN [timeout |-> id, timers |-> d.timers \cup {[id |-> id, args |-> args]}]

\* executedFunction(...args), lines 110-117.
executedFunction(d, args) ==
    LET cleared == clearTimeout(d.timers, d.timeout)
        id == NewId(cleared)
    IN [timeout |-> id, timers |-> cleared \cup {[id |-> id, args |-> args]}]

\* later, lines 111-114, run by the firing of timer t: the closure state it
\* leaves; func(...t.args) is run by the action.
later(d, t) == [d EXCEPT !.timers = clearTimeout(d.timers \ {t}, d.timeout)]

\* A call of the wrapper debounce(func, wait) with arguments args.
DebouncedCall(args) ==
    /\ FreeIds(debounced.timers) # {}
    /\ Len(burst) < MaxBurstLen
    /\ debounced' = executedFunction(debounced, args)
    /\ burst' = Append(burst, args)
    /\ bursts' = IF burst = <<>> THEN bursts + 1 ELSE bursts
    /\ bursts' <= MaxBursts
    /\ UNCHANGED <<present, navVars, formVars, uiVars, ran, threw, last>>

\* A pending timer of the wrapper fires: later runs func with its arguments.
DebouncedTimerFires(t) ==
    /\ t \in debounced.timers
    /\ debounced' = later(debounced, t)
    /\ ran' = Append(ran, t.args)
    /\ burst' = <<>>
    /\ UNCHANGED <<present, navVars, formVars, uiVars, bursts, threw, last>>

InitWrapper == present = Anchors /\ InitNavState /\ fragment = "" /\ InitRest

NextDebounce ==
    \/ \E a \in DebounceArgs : DebouncedCall(a)
    \/ \E t \in debounced.timers : DebouncedTimerFires(t)

SpecDebounce == InitWrapper /\ [][NextDebounce]_vars

----------------------------------------------------------------------------
(* Scroll and resize *)

\* The viewport is scrolled to y (by the user, or by the smooth scroll that
\* line 55 starts): the scroll event calls the debounced handleScroll, line 121.
ScrollEvent(y) ==
    /\ Idle
    /\ FreeIds(scrollDebounce.timers) # {}
    /\ scrollY' = y
    /\ scrollDebounce' = executedFunction(scrollDebounce, "event")
    /\ threw' = FALSE
    /\ last' = [op |-> "scroll", arg |-> ""]
    /\ UNCHANGED <<present, loaded, active, linkActive, fragment, historyLen,
                   historyPos, popPending, animateTimers, barWidth, barTimers,
                   formVars, scrolled, lastScroll, innerWidth, resizeDebounce,
                   debVars>>

\* The 10ms timer of the scroll wrapper fires: later runs handleScroll, lines
\* 95-105, which reads header.classList without a test of header.
ScrollTimerFires(t) ==
    /\ t \in scrollDebounce.timers
    /\ scrollDebounce' = later(scrollDebounce, t)
    /\ IF "header" \in present
       THEN /\ scrolled' = (scrollY > 50)
            /\ lastScroll' = scrollY
            /\ threw' = FALSE
       ELSE /\ UNCHANGED <<scrolled, lastScroll>>
            /\ threw' = TRUE
    /\ last' = [op |-> "handleScroll", arg |-> ""]
    /\ UNCHANGED <<present, navVars, formVars, innerWidth, resizeDebounce,
                   debVars>>

\* The window is resized to width w: the resize event calls handleResize,
\* line 603.
ResizeEvent(w) ==
    /\ Idle
    /\ FreeIds(resizeDebounce.timers) # {}
    /\ w # innerWidth
    /\ innerWidth' = w
    /\ resizeDebounce' = executedFunction(resizeDebounce, "event")
    /\ threw' = FALSE
    /\ last' = [op |-> "resize", arg |-> ""]
    /\ UNCHANGED <<present, navVars, formVars, scrolled, lastScroll,
                   scrollDebounce, debVars>>

\* The 250ms timer of handleResize fires: later runs the callback, lines
\* 594-600, which reads mobileToggle.classList without a test of mobileToggle.
ResizeTimerFires(t) ==
    /\ t \in resizeDebounce.timers
    /\ resizeDebounce' = later(resizeDebounce, t)
    /\ LET menuOpen == /\ innerWidth > 768
                       /\ "navMenu" \in present
                       /\ "navMenu" \in active
       IN IF menuOpen /\ "mobileToggle" \notin present
          THEN threw' = TRUE /\ UNCHANGED active
          ELSE /\ active' = IF menuOpen
                            THEN active \ {"mobileToggle", "navMenu"}
                            ELSE active
               /\ threw' = FALSE
    /\ last' = [op |-> "handleResize", arg |-> ""]
    /\ UNCHANGED <<present, loaded, linkActive, fragment, historyLen,
                   historyPos, popPending, scrollY, animateTimers, barWidth,
                   barTimers, formVars, scrolled, lastScroll, innerWidth,
                   scrollDebounce, debVars>>

InitUi == present \in Documents /\ InitNavState /\ fragment = "" /\ InitRest

\* The handlers of the navigation bar, the window and the address bar.
NextUi ==
    \/ Load
    \/ ToggleClick
    \/ \E k \in Keys : Keydown(k)
    \/ \E f \in MenuFragments : FragmentEdit(f)
    \/ PopstateHandler
    \/ \E y \in ScrollPositions : ScrollEvent(y)
    \/ \E t \in scrollDebounce.timers : ScrollTimerFires(t)
    \/ \E w \in Widths : ResizeEvent(w)
    \/ \E t \in resizeDebounce.timers : ResizeTimerFires(t)

SpecUi == InitUi /\ [][NextUi]_vars

----------------------------------------------------------------------------
(* One round of the form's lifecycle with the other handlers interleaved *)

\* The form as the document delivers it: no inline display style yet.
FirstRound == formDisplay = ""

\* The NavLink clicked and the keys pressed while a reset is pending: pages
\* without skill bars, so that no animation timer is started.
LifeLinks == {"projects"}

LifeKeys == {"Escape", "1", "4"}

\* A reset timer is pending.
ResetPending == resetTimers > 0

InitLife == present = Anchors /\ InitNavState /\ fragment = "" /\ InitRest

\* The form is filled in and submitted; while a reset is pending the other
\* handlers of the page run in any order.
NextLife ==
    \/ Load
    \/ FirstRound /\ \E f \in Fields : FocusField(f)
    \/ FirstRound /\ \E f \in Fields : \E v \in FieldValues(f) : Input(f, v)
    \/ Submit
    \/ ResetTimerFires
    \/ ResetPending /\ \E p \in LifeLinks : ClickNavLink(p)
    \/ ResetPending /\ \E k \in LifeKeys : Keydown(k)
    \/ ResetPending /\ ToggleClick
    \/ ResetPending /\ \E pos \in 1..MaxHistory : HistoryTraverse(pos, "home")
    \/ PopstateHandler
    \/ ResetPending /\ \E y \in ScrollPositions : ScrollEvent(y)
    \/ \E t \in scrollDebounce.timers : ScrollTimerFires(t)
    \/ ResetPending /\ \E w \in Widths : ResizeEvent(w)
    \/ \E t \in resizeDebounce.timers : ResizeTimerFires(t)

\* A timer that is pending fires: the 3000ms reset timer is never starved.
SpecLife == InitLife /\ [][NextLife]_vars /\ WF_vars(ResetTimerFires)

----------------------------------------------------------------------------
(* The keyboard among the form's and the menu's handlers *)

\* The text field f holds when the script starts (restored or filled in by
\* the browser): one that validateField accepts, so that the form can be
\* submitted and the success notice shown.
FilledText(f) == CHOOSE v \in FieldValues(f) : validateField(f, v).ok

InitKeys ==
    /\ present = Anchors
    /\ InitNavState /\ fragment = ""
    /\ InitUiState /\ InitDebState
    /\ value = [f \in Fields |-> FilledText(f)]
    /\ errorFlag = {}
    /\ errorText = [f \in Fields |-> ""]
    /\ formDisplay = ""
    /\ successHidden = TRUE
    /\ resetTimers = 0
    /\ focus = "none"
    /\ checked = [f \in Fields |-> "none"]

\* Keys are pressed while the menu is open or closed, while a field has the
\* focus and while the success notice is shown.
\* The field the keys are typed in: the keydown listener is on the document
\* and does not look at the event's target, so one field stands for all.
KeyFields == {"message"}

NextKeys ==
    \/ Load
    \/ \E k \in Keys : Keydown(k)
    \/ ToggleClick
    \/ animateSkills
    \/ \E b \in SkillBars : BarTimerFires(b)
    \/ \E f \in KeyFields : FocusField(f)
    \/ Submit
    \/ ResetTimerFires

SpecKeys == InitKeys /\ [][NextKeys]_vars

Next == NextNav \/ NextForm \/ NextDebounce \/ NextUi \/ NextLife \/ NextKeys \/ NextClick

Spec == Init /\ [][Next]_vars

----------------------------------------------------------------------------
(* Properties of the navigation controller *)

ActivePages == active \cap Pages

CalledNavigate(id) == last = [op |-> "navigateToPage", arg |-> id]

\* C1: after navigateToPage(id) with id one of the four pages, exactly one
\* Page and exactly one NavLink carry the active flag, both bound to id.
C1_NavigateActivatesExactlyTarget ==
    \A id \in Pages :
        CalledNavigate(id) => ActivePages = {id} /\ linkActive = {id}

\* A navigation to "contact" has acted from a state with another page active
\* and a non-page element marked active.
C1_Witness ==
    /\ CalledNavigate("contact")
    /\ historyLen = 3
    /\ "header" \in active

\* C2: at most one Page is active, at most one NavLink is highlighted, and a
\* highlighted NavLink is the one bound to the active Page.
C2_AtMostOneAndMatching ==
    /\ Cardinality(ActivePages) <= 1
    /\ Cardinality(linkActive) <= 1
    /\ linkActive # {} => linkActive = ActivePages

\* C3: once the initial load has completed exactly one Page is active.
C3_ExactlyOnePageAfterLoad ==
    loaded => Cardinality(ActivePages) = 1

\* C4: after the initial load, the Page named by the fragment and its NavLink
\* are the only active ones, and home and its NavLink are when the fragment
\* is empty or names no Page.
C4_LoadActivatesFragmentOrHome ==
    last.op = "load" =>
        LET target == IF last.arg \in Pages THEN last.arg ELSE "home"
        IN ActivePages = {target} /\ linkActive = {target}

Pushed ==
    /\ historyPos' = historyPos + 1
    /\ historyLen' = historyPos'

NotPushed ==
    /\ historyPos' = historyPos
    /\ historyLen' = historyLen

RoundTrip(id) ==
    /\ fragment' = id
    /\ Pushed <=> fragment # id
    /\ fragment = id => NotPushed

\* A step of a handler that called navigateToPage and returned: the handlers
\* record the call in last, and a traversal, which keeps last, sets popPending.
NavigateReturned == last'.op = "navigateToPage" /\ ~popPending' /\ ~threw'

\* C5 as stated: after any call navigateToPage(id) that returns, the fragment
\* reads id, and an entry was pushed iff the fragment differed from id before.
C5_RoundTripAnyId ==
    [][NavigateReturned => RoundTrip(last'.arg)]_vars

\* C5 amended: the same for every id the URL parser stores unchanged as the
\* fragment, which the four page ids are.
C5_RoundTripPlainId ==
    [][(NavigateReturned /\ EncodeFragment(last'.arg) = last'.arg)
          => RoundTrip(last'.arg)]_vars

\* navigateToPage("about") was called a second time (the first call's
\* animateSkills timer has fired, the second one's is pending) with the
\* fragment already "about": one entry was pushed, by the first call.
C5_Witness ==
    /\ CalledNavigate("about")
    /\ fragment = "about"
    /\ historyLen = 2 /\ historyPos = 2
    /\ animateTimers = 1 /\ barTimers["bar"] = 1

\* C6: the popstate handler activates the Page and NavLink named by the
\* fragment (home when it is empty) and leaves fragment and history alone.
C6_PopstateKeepsHistory ==
    [][(popPending /\ ~popPending') =>
          LET hash == IF fragment = "" THEN "home" ELSE fragment
          IN /\ active' \cap Pages = {hash} \cap Pages
             /\ linkActive' = {hash} \cap Pages
             /\ fragment' = fragment
             /\ historyLen' = historyLen
             /\ historyPos' = historyPos]_vars

\* popstate was handled with an empty fragment after going back: home is
\* active and the pushed entry is still there.
C6_Witness ==
    /\ last = [op |-> "popstate", arg |-> ""]
    /\ ActivePages = {"home"} /\ linkActive = {"home"}
    /\ fragment = ""
    /\ historyLen = 2 /\ historyPos = 1

\* C7: navigateToPage with an id outside the Page set raises no error and
\* leaves no Page and no NavLink active.
C7_UnknownIdNoErrorNothingActive ==
    \A id \in NavIds \ Pages :
        CalledNavigate(id) => ~threw /\ ActivePages = {} /\ linkActive = {}

----------------------------------------------------------------------------
(* Properties of the contact form *)

InvalidFields == {f \in Fields : ~validateField(f, value[f]).ok}

\* C8: a valid submit hides the form and shows the success notice; when the
\* reset timer fires the form is displayed again, every field is empty, every
\* error flag and message is cleared and the notice is hidden.
C8_SubmitThenReset ==
    /\ last = [op |-> "submit", arg |-> "valid"] =>
          /\ formDisplay = "none"
          /\ "formSuccess" \in present => ~successHidden
          /\ resetTimers >= 1
    /\ last.op = "reset" =>
          /\ formDisplay = "flex"
          /\ \A f \in Fields : value[f] = "" /\ errorText[f] = ""
          /\ errorFlag = {}
          /\ successHidden

\* The reset timer of a valid submit has fired in a document with the notice.
C8_Witness ==
    /\ last.op = "reset"
    /\ "formSuccess" \in present
    /\ formDisplay = "flex"
    /\ resetTimers = 0

C10_AtMostOneResetTimer ==
    resetTimers <= 1

----------------------------------------------------------------------------
(* Properties of the form's lifecycle among the other handlers *)

ShowingSuccess == formDisplay = "none"

EditingEmpty == formDisplay = "flex" /\ \A f \in Fields : value[f] = ""

\* C11: once a valid submit has hidden the form, the form is eventually
\* displayed again with every field empty, whatever other events interleave;
\* only the firing of a reset timer ends the hidden state, and only such a
\* firing takes a pending reset timer away, one at a time.
C11_ResetAlwaysCompletes ==
    /\ ShowingSuccess ~> EditingEmpty
    /\ [][(ShowingSuccess /\ ~ShowingSuccess') => last'.op = "reset"]_vars
    /\ [][resetTimers' < resetTimers =>
            (last'.op = "reset" /\ resetTimers' = resetTimers - 1)]_vars

\* The reset has fired after a navigation, a scroll past the threshold and a
\* resize to desktop width were handled while it was pending.
C11_Witness ==
    /\ last.op = "reset"
    /\ EditingEmpty /\ resetTimers = 0
    /\ historyLen = 2 /\ scrolled /\ innerWidth = 1024

----------------------------------------------------------------------------
(* Properties of field validation *)

\* C12: for every field on which validateField has run, the error flag is set
\* if and only if the most recent run on that field returned false.
C12_FlagIffLastCheckFailed ==
    \A f \in Fields :
        checked[f] # "none" => (f \in errorFlag <=> checked[f] = "failed")

\* C13: validateForm returns true if and only if every field is valid, and
\* after it returned each field's error flag is set exactly when the field's
\* own value is invalid, also for the fields after the first invalid one.
C13_ValidateFormChecksEveryField ==
    last.op = "submit" =>
        /\ last.arg = "valid" <=> \A f \in Fields : validateField(f, value[f]).ok
        /\ errorFlag = InvalidFields
        /\ \A f \in Fields : checked[f] # "none"

\* A submit found the first and the third field invalid and the second valid.
C13_Witness ==
    /\ last = [op |-> "submit", arg |-> "invalid"]
    /\ errorFlag = {"name", "message"}
    /\ value["email"] = "a@b.c"

\* validateField has just run on field f, on the value the field holds.
JustValidated(f) == last = [op |-> "blur", arg |-> f] \/ last.op = "submit"

\* C14: for every field kind and every value that is empty after trimming,
\* validateField returns false, sets the error flag and shows the fixed
\* required-field message, not the message of the field's rule.
C14_EmptyTrimmedIsRequired ==
    \A f \in Fields :
        (JustValidated(f) /\ trim(value[f]) = "") =>
            /\ checked[f] = "failed"
            /\ f \in errorFlag
            /\ errorText[f] = RequiredMessage

\* The email field holding one space was validated on blur.
C14_Witness ==
    /\ last = [op |-> "blur", arg |-> "email"]
    /\ value["email"] = " "
    /\ "email" \in errorFlag
    /\ errorText["email"] = RequiredMessage

\* C15: a message that is not empty after trimming, whatever its characters,
\* is valid if and only if its trimmed length is between 10 and 500.
C15_MessageValidIffLength ==
    (JustValidated("message") /\ trim(value["message"]) # "") =>
        (checked["message"] = "passed" <=>
            (Len(trim(value["message"])) >= 10
             /\ Len(trim(value["message"])) <= 500))

----------------------------------------------------------------------------
(* Properties of the window handlers and the mobile menu *)

\* C16: in a document that lacks one of the five anchor elements no handler
\* ends with an error.
C16_AbsentAnchorNoError ==
    present # Anchors => ~threw

\* C17: in every reachable state a keydown of key k in 1..4 does what
\* navigateToPage does for the k-th of home, about, projects, contact and
\* leaves the form alone, and a keydown of another key keeps the active Page.
C17_DigitKeysNavigate ==
    [][/\ \A k \in 1..4 :
            (last'.op = "navigateToPage" /\ Keydown(<<"1", "2", "3", "4">>[k])) =>
                LET page == <<"home", "about", "projects", "contact">>[k]
                    s == navigateToPage(NavState, present, page)
                IN /\ ActivePages' = {page} /\ linkActive' = {page}
                   /\ active' = s.active
                   /\ fragment' = s.fragment
                   /\ historyLen' = s.historyLen
                   /\ historyPos' = s.historyPos
                   /\ scrollY' = s.scrollY
                   /\ animateTimers' = s.animateTimers
                   /\ formVars' = formVars
       /\ \A key \in {"Escape", "5"} :
            (last'.op = "keydown" /\ Keydown(key)) =>
                ActivePages' = ActivePages]_vars

\* Key 3 was pressed while the message field had the focus and the history
\* held two entries: projects is active and a third entry was pushed.
C17_Witness ==
    /\ CalledNavigate("projects")
    /\ focus = "message"
    /\ ActivePages = {"projects"}
    /\ historyLen = 3

----------------------------------------------------------------------------
(* Properties of debounce *)

\* The pending timers of the wrapper agree with the calls made: none when no
\* call is waiting, else one, carrying the arguments of the latest call.
OnePendingForBurst ==
    /\ Cardinality(debounced.timers) <= 1
    /\ burst = <<>> <=> debounced.timers = {}
    /\ \A t \in debounced.timers :
          t.id = debounced.timeout /\ t.args = burst[Len(burst)]
    /\ Len(ran) + (IF burst = <<>> THEN 0 ELSE 1) = bursts

\* C18: at most one timer of a debounced wrapper is pending, a new call
\* cancels the pending one, and func runs once per burst of calls, after the
\* last call of the burst and with the arguments of that call.
C18_DebounceRunsLastOfBurst ==
    /\ []OnePendingForBurst
    /\ [][ran' # ran =>
            /\ burst # <<>>
            /\ ran' = Append(ran, burst[Len(burst)])
            /\ debounced'.timers = {}]_vars
    /\ [][burst' # burst /\ burst' # <<>> =>
            Cardinality(debounced'.timers) = 1]_vars

\* func ran once for a first burst; a second burst of three calls is waiting
\* with one timer, which carries the arguments of the third call.
C18_Witness ==
    /\ ran = <<"b">>
    /\ bursts = 2
    /\ burst = <<"a", "b", "a">>
    /\ \E t \in debounced.timers : t.args = "a"

-----------------------------------------------------------------------------
(* Properties of the skill bars *)

\* The fill a skill bar is animated to.
TargetFill(b) == dataProgress(b) \o "%"

\* C19: each invocation of animateSkills first resets every bar to 0% and
\* starts one 100ms timer per bar; a bar that was animated never returns to
\* its unset fill; and whenever no timer of a bar is pending, however the
\* invocations and the timers overlapped, an animated bar shows its target.
C19_AnimateSkillsIdempotent ==
    /\ [](\A b \in SkillBars :
            /\ barTimers[b] = 0 => barWidth[b] \in {"", TargetFill(b)}
            /\ barWidth[b] = "0%" => barTimers[b] > 0)
    /\ [][animateTimers' < animateTimers =>
            \A b \in SkillBars :
                barWidth'[b] = "0%" /\ barTimers'[b] = barTimers[b] + 1]_vars
    /\ [][\A b \in SkillBars :
            /\ barWidth[b] # "" => barWidth'[b] # ""
            /\ barTimers'[b] < barTimers[b] => barWidth'[b] = TargetFill(b)]_vars

\* Two invocations overlapped: the second ran while the timer of the first
\* was pending and reset the bar; the first of the two timers has just fired
\* and the bar shows its target while the other timer is still pending.
C19_Witness ==
    /\ last = [op |-> "barTimer", arg |-> "bar"]
    /\ barTimers["bar"] = 1
    /\ animateTimers = 0
    /\ barWidth["bar"] = TargetFill("bar")

-----------------------------------------------------------------------------
(* Properties of the mobile menu *)

\* C20: where the toggle and the menu both exist, the toggle is active
\* exactly when the menu is, and the menu is closed after every call of
\* navigateToPage.
C20_ToggleEqualsMenu ==
    {"mobileToggle", "navMenu"} \subseteq present =>
        /\ "mobileToggle" \in active <=> "navMenu" \in active
        /\ last.op = "navigateToPage" => "navMenu" \notin active

-----------------------------------------------------------------------------
(* Properties of a click on a NavLink *)

\* C21: a click on a NavLink, which runs navigateToPage from the per-link
\* handler and from the document-level handler, pushes exactly one history
\* entry when the fragment differed from the target and none when it was
\* equal, and leaves the active Page and NavLink, the menu and the fragment
\* as a single call of navigateToPage leaves them.
C21_LinkClickPushesOnce ==
    [][\A p \in Pages :
          (last'.op = "navigateToPage" /\ last'.arg = p /\ ClickNavLink(p)) =>
              LET one == navigateToPage(NavState, present, p)
              IN /\ active' = one.active
                 /\ linkActive' = one.linkActive
                 /\ active' \cap Pages = {p} /\ linkActive' = {p}
                 /\ fragment' = p
                 /\ IF fragment # p
                    THEN historyPos' = historyPos + 1 /\ historyLen' = historyPos + 1
                    ELSE UNCHANGED <<historyPos, historyLen>>
                 /\ ~threw']_vars

\* The about link was clicked on the freshly loaded home page: both handlers
\* called navigateToPage (two animateSkills timers are pending) and one entry
\* was pushed.
C21_Witness ==
    /\ CalledNavigate("about")
    /\ animateTimers = 2
    /\ fragment = "about"
    /\ historyLen = 2 /\ historyPos = 2
    /\ ActivePages = {"about"} /\ linkActive = {"about"}

====
